---- MODULE Spec2Model ----
(***************************************************************************)
(* A model of static/js/rules/Rule.js: the Rule object (id, enabled, name, *)
(* trigger, effect), its persistence operations (update, setTrigger,       *)
(* setEffect, delete) with the fetch requests they leave in flight, and    *)
(* the rendering of the trigger and effect trees into a sentence.          *)
(***************************************************************************)
EXTENDS Integers, Sequences, FiniteSets, TLC

VARIABLES
  things,      \* this.gateway.things: the gateway's ordered list of things
  hasOnUpdate, \* whether an onUpdate listener was given to the constructor
  id,          \* this.id
  enabled,     \* this.enabled
  name,        \* this.name
  trigger,     \* this.trigger
  effect,      \* this.effect
  inflight,    \* fetch requests issued and not yet settled
  issued,      \* number of fetch requests issued so far
  serverIds,   \* number of identifiers the server has handed out
  arrivals,    \* the settlements of the POST requests, in order of arrival
  lastCall,    \* the latest method call or promise settlement and its outcome
  out          \* what the latest rendering call returned or threw

vars == <<things, hasOnUpdate, id, enabled, name, trigger, effect,
          inflight, issued, serverIds, arrivals, lastCall, out>>

ruleVars == <<id, enabled, name, trigger, effect>>
netVars == <<inflight, issued, serverIds, arrivals>>

-----------------------------------------------------------------------------
(* Bounds of the model *)

\* most children a composite of the input pools has
MaxChildren == 3
\* deepest nesting of composites in the input pools
MaxDepth == 2
\* most fetch requests issued in one behaviour
MaxRequests == 3

-----------------------------------------------------------------------------
(* JavaScript values *)

\* the value undefined (an absent field)
Undefined == [undefined |-> TRUE]
\* a defined value
JS(v) == [value |-> v]
\* typeof x === 'undefined'
IsUndefined(x) == x = Undefined

\* the result null of a rendering function
Null == [isNull |-> TRUE]
\* a string result of a rendering function
Str(s) == [isNull |-> FALSE, str |-> s]
\* !x for x a string or null: null and '' are falsy
Falsy(x) == x.isNull \/ x.str = ""

\* truthiness of a boolean or a number
Truthy(v) == IF "b" \in DOMAIN v THEN v.b ELSE v.n # 0
\* string concatenation of a boolean or a number
ValueText(v) == IF "b" \in DOMAIN v
                  THEN (IF v.b THEN "true" ELSE "false")
                  ELSE ToString(v.n)
Bool(b) == [b |-> b]
Num(n) == [n |-> n]

-----------------------------------------------------------------------------
(* The gateway collaborator *)

Lamp == [href |-> "/things/lamp", name |-> "Lamp",
         properties |-> [p \in {"on", "level"} |->
                           [href |-> "/things/lamp/properties/" \o p]]]
Button == [href |-> "/things/button", name |-> "Button",
           properties |-> [p \in {"pushed"} |->
                           [href |-> "/things/button/properties/" \o p]]]

\* the catalogs the gateway may hold: both devices, or the lamp alone
Gateways == { <<Lamp, Button>>, <<Lamp>> }

\* the property reference the data model stores for property p of thing t
PropertyRef(t, p) == [name |-> p, href |-> t.href \o "/properties/" \o p]

\* RuleUtils.byHref(href): the filter matching the thing of that href
byHref(href, thing) == thing.href = href

\* RuleUtils.byProperty(property): the filter matching the thing that owns it
byProperty(property, thing) ==
  /\ property.name \in DOMAIN thing.properties
  /\ thing.properties[property.name].href = property.href

\* array.filter(f)[0], for hits the indexes of the things the filter keeps:
\* the index of the first of them, or 0 for undefined
FirstIndex(hits) ==
  IF hits = {} THEN 0 ELSE CHOOSE i \in hits : \A j \in hits : i <= j

\* TimeTriggerBlock.utcToLocal(time): the viewer's zone is TimezoneOffset
\* hours ahead of UTC
TimezoneOffset == 2
utcToLocal(time) ==
  LET h == (time.h + TimezoneOffset) % 24
  IN (IF h < 10 THEN "0" ELSE "") \o ToString(h) \o ":"
     \o (IF time.m < 10 THEN "0" ELSE "") \o ToString(time.m)

-----------------------------------------------------------------------------
(* Rendering of triggers *)

selectHTML(andSelected, orSelected) ==
  "\n              <span class=\"triangle-select-container\">"
  \o "\n                <select class=\"triangle-select rule-trigger-select\">"
  \o "\n                  <option " \o andSelected \o ">and</option>"
  \o "\n                  <option " \o orSelected \o ">or</option>"
  \o "\n                </select>"
  \o "\n              </span>"
  \o "\n            "

\* a separator with a comma between two children as well
TriggerSeparator_AlwaysComma(trig, i, html) ==
  LET n == Len(trig.triggers) IN
  IF i > 0
    THEN ", "
         \o (IF i = n - 1
               THEN (IF html
                       THEN selectHTML(IF trig.op = "AND" THEN "selected" ELSE "",
                                       IF trig.op = "OR" THEN "selected" ELSE "")
                       ELSE (IF trig.op = "AND" THEN "and " ELSE "or "))
               ELSE "")
    ELSE ""

\* what the loop of a MultiTrigger appends before child i (0-based)
TriggerSeparator(trig, i, html) ==
  LET n == Len(trig.triggers) IN
  IF i > 0
    THEN (IF n > 2 THEN "," ELSE "") \o " "
         \o (IF i = n - 1
               THEN (IF html
                       THEN selectHTML(IF trig.op = "AND" THEN "selected" ELSE "",
                                       IF trig.op = "OR" THEN "selected" ELSE "")
                       ELSE (IF trig.op = "AND" THEN "and " ELSE "or "))
               ELSE "")
    ELSE ""

\* a renderer that does not know the EqualityTrigger variant
PropertyTriggerText_NoEquality(trig, triggerThing) ==
  LET triggerStr == triggerThing.name \o " " IN
  IF trig.type = "BooleanTrigger"
    THEN Str(triggerStr \o "is " \o (IF ~trig.onValue THEN "not " ELSE "")
             \o trig.property.name)
  ELSE IF trig.type = "LevelTrigger"
    THEN Str(triggerStr \o trig.property.name \o " is "
             \o (IF trig.levelType = "LESS" THEN "less than "
                                            ELSE "greater than ")
             \o ValueText(trig.value))
  ELSE Null

\* the text of a trigger that names a property; the thing was resolved
PropertyTriggerText(trig, triggerThing) ==
  LET triggerStr == triggerThing.name \o " " IN
  IF trig.type = "BooleanTrigger"
    THEN Str(triggerStr \o "is " \o (IF ~trig.onValue THEN "not " ELSE "")
             \o trig.property.name)
  ELSE IF trig.type = "LevelTrigger"
    THEN Str(triggerStr \o trig.property.name \o " is "
             \o (IF trig.levelType = "LESS" THEN "less than "
                                            ELSE "greater than ")
             \o ValueText(trig.value))
  ELSE IF trig.type = "EqualityTrigger"
    THEN Str(triggerStr \o trig.property.name \o " is " \o ValueText(trig.value))
  ELSE Null

RECURSIVE singleTriggerToHumanRepresentation(_, _, _)
RECURSIVE MultiTriggerLoop(_, _, _, _, _)

\* the for loop of the MultiTrigger branch, from index i (0-based) with
\* triggerStr built so far
MultiTriggerLoop(ths, trig, html, i, triggerStr) ==
  IF i >= Len(trig.triggers) THEN Str(triggerStr)
  ELSE LET sep == TriggerSeparator(trig, i, html)
           singleStr ==
             singleTriggerToHumanRepresentation(ths, trig.triggers[i + 1], html)
       IN IF Falsy(singleStr) THEN Null
          ELSE MultiTriggerLoop(ths, trig, html, i + 1,
                                triggerStr \o sep \o singleStr.str)

singleTriggerToHumanRepresentation(ths, trig, html) ==
  IF IsUndefined(trig) THEN Null
  ELSE IF trig.type = "MultiTrigger"
    THEN MultiTriggerLoop(ths, trig, html, 0, "")
  ELSE IF trig.type = "TimeTrigger"
    THEN Str("the time of day is " \o utcToLocal(trig.time))
  ELSE IF trig.type = "EventTrigger"
    THEN LET k == FirstIndex({i \in 1..Len(ths) : byHref(trig.thing.href, ths[i])})
         IN IF k = 0 THEN Null
            ELSE Str(ths[k].name \o " event \"" \o trig.event \o "\" occurs")
  ELSE LET k == FirstIndex({i \in 1..Len(ths) : byProperty(trig.property, ths[i])})
       IN IF k = 0 THEN Null
          ELSE PropertyTriggerText(trig, ths[k])

-----------------------------------------------------------------------------
(* Rendering of effects *)

\* what the loop of a MultiEffect appends before child i (0-based)
EffectSeparator(eff, i) ==
  LET n == Len(eff.effects) IN
  IF i > 0
    THEN (IF n > 2 THEN "," ELSE "") \o " "
         \o (IF i = n - 1 THEN "and " ELSE "")
    ELSE ""

\* the text of an effect that names a property; the thing was resolved
PropertyEffectText(eff, effectThing) ==
  IF eff.property.name = "on"
    THEN "turn " \o effectThing.name \o " "
         \o (IF Truthy(eff.value) THEN "on" ELSE "off")
    ELSE "set " \o effectThing.name \o " " \o eff.property.name \o " to "
         \o ValueText(eff.value)

RECURSIVE singleEffectToHumanRepresentation(_, _)
RECURSIVE MultiEffectLoop(_, _, _, _)

MultiEffectLoop(ths, eff, i, effectStr) ==
  IF i >= Len(eff.effects) THEN Str(effectStr)
  ELSE LET sep == EffectSeparator(eff, i)
           singleStr == singleEffectToHumanRepresentation(ths, eff.effects[i + 1])
       IN IF Falsy(singleStr) THEN Null
          ELSE MultiEffectLoop(ths, eff, i + 1, effectStr \o sep \o singleStr.str)

singleEffectToHumanRepresentation(ths, eff) ==
  IF IsUndefined(eff) THEN Null
  ELSE IF eff.type = "MultiEffect"
    THEN MultiEffectLoop(ths, eff, 0, "")
  ELSE IF eff.type = "ActionEffect"
    THEN LET k == FirstIndex({i \in 1..Len(ths) : byHref(eff.thing.href, ths[i])})
         IN IF k = 0 THEN Null
            ELSE Str("do " \o ths[k].name \o " action \"" \o eff.action \o "\"")
  ELSE LET k == FirstIndex({i \in 1..Len(ths) : byProperty(eff.property, ths[i])})
       IN IF k = 0 THEN Null
          ELSE Str(PropertyEffectText(eff, ths[k]))

-----------------------------------------------------------------------------
(* The sentence of a rule *)

\* the local triggerStr of toHumanRepresentation
TriggerSide(ths, trig, html) ==
  IF ~IsUndefined(trig)
    THEN LET r == singleTriggerToHumanRepresentation(ths, trig, html)
         IN IF Falsy(r) THEN "???" ELSE r.str
    ELSE "???"

\* the local effectStr of toHumanRepresentation
EffectSide(ths, eff) ==
  IF ~IsUndefined(eff)
    THEN LET r == singleEffectToHumanRepresentation(ths, eff)
         IN IF Falsy(r) THEN "???" ELSE r.str
    ELSE "???"

\* this.effect && this.effect.effects && this.effect.effects.length > 0,
\* as the condition "permanent ?" later reads it
effectExists(eff) ==
  /\ ~IsUndefined(eff)
  /\ "effects" \in DOMAIN eff
  /\ Len(eff.effects) > 0

\* a scan that lets only a SetEffect decide
ScanStep_SetOnly(child) ==
  IF child.type = "SetEffect" THEN [break |-> TRUE, permanent |-> TRUE]
  ELSE [break |-> FALSE]

\* the body of the scan for one child: "break" with a value, or go on
ScanStep(child) ==
  IF child.type = "SetEffect" THEN [break |-> TRUE, permanent |-> TRUE]
  ELSE IF child.type = "PulseEffect" THEN [break |-> TRUE, permanent |-> FALSE]
  ELSE [break |-> FALSE]

RECURSIVE PermanentScan(_, _, _)
\* for (const effect of effects) from index i (1-based), permanent so far
PermanentScan(effects, i, permanent) ==
  IF i > Len(effects) THEN permanent
  ELSE LET s == ScanStep(effects[i])
       IN IF s.break THEN s.permanent
          ELSE PermanentScan(effects, i + 1, permanent)

\* whether evaluating this.effect.effects for the scan throws a TypeError:
\* this.effect is undefined, or it has no list of effects to iterate
ScanThrows(eff) == IsUndefined(eff) \/ "effects" \notin DOMAIN eff

predicateHTML(permSelected, tempSelected) ==
  "<span class=\"triangle-select-container\">"
  \o "\n      <select class=\"triangle-select rule-effect-select\">"
  \o "\n        <option " \o permSelected \o ">If</option>"
  \o "\n        <option " \o tempSelected \o ">While</option>"
  \o "\n      </select>"
  \o "\n    </span>"

\* the predicate of the sentence
Predicate(permanent, html) ==
  IF html
    THEN predicateHTML(IF permanent THEN "selected" ELSE "",
                       IF permanent THEN "" ELSE "selected")
    ELSE (IF permanent THEN "If" ELSE "While")

\* `${predicate} ${triggerStr}, ${effectStr}`
Sentence(predicate, triggerStr, effectStr) ==
  predicate \o " " \o triggerStr \o ", " \o effectStr

\* toHumanRepresentation(html): the sentence returned, or a TypeError thrown
toHumanRepresentation(ths, trig, eff, html) ==
  LET triggerStr == TriggerSide(ths, trig, html)
      effectStr == EffectSide(ths, eff)
  IN IF ScanThrows(eff)
       THEN [threw |-> TRUE]
       ELSE LET permanent == PermanentScan(eff.effects, 1, effectExists(eff))
            IN [threw |-> FALSE,
                value |-> Sentence(Predicate(permanent, html),
                                   triggerStr, effectStr)]

\* valid()
valid(ths, trig, eff) ==
  /\ ~Falsy(singleTriggerToHumanRepresentation(ths, trig, FALSE))
  /\ ~Falsy(singleEffectToHumanRepresentation(ths, eff))

\* a toDescription that forgets to look at the effect
toDescription_TriggerOnly(en, nm, trig, eff) ==
  IF IsUndefined(trig)
    THEN Undefined
    ELSE [enabled |-> en, name |-> nm, trigger |-> trig, effect |-> eff]

\* a toDescription that gives a description of valid rules only
toDescription_ValidOnly(en, nm, trig, eff) ==
  IF ~valid(things, trig, eff)
    THEN Undefined
    ELSE [enabled |-> en, name |-> nm, trigger |-> trig, effect |-> eff]

\* toDescription of a rule with these fields; Undefined stands for null
toDescription(en, nm, trig, eff) ==
  IF IsUndefined(trig) \/ IsUndefined(eff)
    THEN Undefined
    ELSE [enabled |-> en, name |-> nm, trigger |-> trig, effect |-> eff]

\* JSON.stringify(desc): a field whose value is undefined is left out
stringify(desc) ==
  IF IsUndefined(desc.name)
    THEN [enabled |-> desc.enabled, trigger |-> desc.trigger,
          effect |-> desc.effect]
    ELSE [enabled |-> desc.enabled, name |-> desc.name.value,
          trigger |-> desc.trigger, effect |-> desc.effect]

-----------------------------------------------------------------------------
(* The trees the model draws its inputs from *)

MultiTrigger(op, triggers) ==
  [type |-> "MultiTrigger", op |-> op, triggers |-> triggers]
TimeTrigger(h, m) == [type |-> "TimeTrigger", time |-> [h |-> h, m |-> m]]
EventTrigger(thing, event) ==
  [type |-> "EventTrigger", thing |-> [href |-> thing.href], event |-> event]
BooleanTrigger(property, onValue) ==
  [type |-> "BooleanTrigger", property |-> property, onValue |-> onValue]
LevelTrigger(property, levelType, value) ==
  [type |-> "LevelTrigger", property |-> property, levelType |-> levelType,
   value |-> value]
EqualityTrigger(property, value) ==
  [type |-> "EqualityTrigger", property |-> property, value |-> value]

MultiEffect(effects) == [type |-> "MultiEffect", effects |-> effects]
ActionEffect(thing, action) ==
  [type |-> "ActionEffect", thing |-> [href |-> thing.href], action |-> action]
SetEffect(property, value) ==
  [type |-> "SetEffect", property |-> property, value |-> value]
PulseEffect(property, value) ==
  [type |-> "PulseEffect", property |-> property, value |-> value]

\* all sequences over S of length at most n
SeqsUpTo(S, n) == UNION {[1..k -> S] : k \in 0..n}

LampOn == BooleanTrigger(PropertyRef(Lamp, "on"), TRUE)
ButtonPressed == EventTrigger(Button, "pressed")
LampDim == LevelTrigger(PropertyRef(Lamp, "level"), "LESS", Num(5))
Bedtime == TimeTrigger(23, 5)

\* one trigger of every variant of the data model
VariantTriggers ==
  { LampOn, ButtonPressed, LampDim, Bedtime,
    BooleanTrigger(PropertyRef(Lamp, "on"), FALSE),
    LevelTrigger(PropertyRef(Lamp, "level"), "GREATER", Num(5)),
    EqualityTrigger(PropertyRef(Button, "pushed"), Bool(TRUE)),
    EqualityTrigger(PropertyRef(Lamp, "level"), Num(0)) }

\* a trigger of a variant the data model does not have
FutureTrigger == [type |-> "FutureTrigger", property |-> PropertyRef(Lamp, "on")]

RECURSIVE TriggerChain(_)
\* a composite nested d deep
TriggerChain(d) ==
  IF d = 0 THEN LampDim
  ELSE MultiTrigger("OR", <<Bedtime, TriggerChain(d - 1)>>)

\* the children of the composites of the pool: two leaves of different
\* texts and, when nesting is allowed, a nested composite and an empty one
TriggerKids ==
  {LampOn, ButtonPressed}
  \cup (IF MaxDepth > 1
          THEN {TriggerChain(MaxDepth - 1), MultiTrigger("AND", <<>>)}
          ELSE {})

TriggerPool ==
  VariantTriggers \cup {FutureTrigger}
  \cup {MultiTrigger(op, s) : op \in {"AND", "OR"},
                              s \in SeqsUpTo(TriggerKids, MaxChildren)}

TurnOn == SetEffect(PropertyRef(Lamp, "on"), Bool(TRUE))
FlashOff == PulseEffect(PropertyRef(Lamp, "on"), Bool(FALSE))
Toggle == ActionEffect(Button, "toggle")
SetLevel == SetEffect(PropertyRef(Lamp, "level"), Num(50))

\* one effect of every variant of the data model
VariantEffects ==
  { TurnOn, FlashOff, Toggle, SetLevel,
    SetEffect(PropertyRef(Lamp, "on"), Bool(FALSE)),
    PulseEffect(PropertyRef(Button, "pushed"), Bool(TRUE)) }

RECURSIVE EffectChain(_)
EffectChain(d) ==
  IF d = 0 THEN SetLevel
  ELSE MultiEffect(<<Toggle, EffectChain(d - 1)>>)

EffectKids ==
  {TurnOn, FlashOff, Toggle}
  \cup (IF MaxDepth > 1
          THEN {EffectChain(MaxDepth - 1), MultiEffect(<<>>)}
          ELSE {})

EffectPool ==
  VariantEffects
  \cup {MultiEffect(s) : s \in SeqsUpTo(EffectKids, MaxChildren)}

\* the trees the persistence operations are given
SaveTriggers == {LampOn, ButtonPressed}
SaveEffects == {MultiEffect(<<Toggle, FlashOff>>)}

-----------------------------------------------------------------------------
(* Construction *)

\* new Rule(gateway, desc, onUpdate); Undefined stands for no desc
Rule(desc) ==
  IF ~IsUndefined(desc)
    THEN [id |-> desc.id,
          enabled |-> desc.enabled,
          name |-> IF ~IsUndefined(desc.name) /\ desc.name.value # ""
                     THEN desc.name ELSE JS("Rule Name"),
          trigger |-> desc.trigger,
          effect |-> desc.effect]
    ELSE [id |-> Undefined, enabled |-> TRUE, name |-> Undefined,
          trigger |-> Undefined, effect |-> Undefined]

\* no call made yet
NoCall == [op |-> "none"]

Constructed(desc) ==
  LET r == Rule(desc) IN
  /\ id = r.id
  /\ enabled = r.enabled
  /\ name = r.name
  /\ trigger = r.trigger
  /\ effect = r.effect
  /\ inflight = {}
  /\ issued = 0
  /\ serverIds = 0
  /\ arrivals = <<>>
  /\ lastCall = NoCall
  /\ out = Undefined

\* the descriptions a rule is loaded from
Descriptions ==
  [id : {Undefined, JS(7)},
   enabled : BOOLEAN,
   name : {Undefined, JS("Night light")},
   trigger : {Undefined} \cup SaveTriggers,
   effect : {Undefined} \cup SaveEffects]

Init ==
  /\ things \in Gateways
  /\ hasOnUpdate \in BOOLEAN
  /\ \E desc \in {Undefined} \cup Descriptions : Constructed(desc)

-----------------------------------------------------------------------------
(* Persistence: update, setTrigger, setEffect, delete *)

\* encodeURIComponent(this.id) for a numeric id
encodeURIComponent(rid) == ToString(rid.value)

\* the fetch that update() issues as request number n for description desc
SaveRequest(rid, desc, n) ==
  IF ~IsUndefined(rid)
    THEN [n |-> n, method |-> "PUT",
          url |-> "/rules/" \o encodeURIComponent(rid),
          body |-> stringify(desc)]
    ELSE [n |-> n, method |-> "POST", url |-> "/rules/",
          body |-> stringify(desc)]

\* a delete() without the check of this.id
DeleteRequests_Always(rid, n) ==
  {[n |-> n, method |-> "DELETE",
    url |-> "/rules/" \o (IF IsUndefined(rid) THEN "undefined"
                                              ELSE ToString(rid.value))]}

\* the fetches that delete() issues as request number n: one or none
DeleteRequests(rid, n) ==
  IF IsUndefined(rid)
    THEN {}
    ELSE {[n |-> n, method |-> "DELETE",
           url |-> "/rules/" \o encodeURIComponent(rid)]}

\* update() on a rule whose trees are trig and eff, called as method op
UpdateBody(op, trig, eff) ==
  LET desc == toDescription(enabled, name, trig, eff) IN
  IF IsUndefined(desc)
    THEN /\ lastCall' = [op |-> op, notified |-> hasOnUpdate,
                         ret |-> "rejected", reason |-> "invalid description",
                         req |-> 0]
         /\ UNCHANGED <<id, netVars>>
    ELSE /\ issued < MaxRequests
         /\ inflight' = inflight \cup {SaveRequest(id, desc, issued + 1)}
         /\ issued' = issued + 1
         /\ lastCall' = [op |-> op, notified |-> hasOnUpdate,
                         ret |-> "promise", req |-> issued + 1]
         /\ UNCHANGED <<id, serverIds, arrivals>>

update ==
  /\ UpdateBody("update", trigger, effect)
  /\ UNCHANGED <<things, hasOnUpdate, enabled, name, trigger, effect, out>>

setTrigger(trig) ==
  /\ trigger' = trig
  /\ UpdateBody("setTrigger", trig, effect)
  /\ UNCHANGED <<things, hasOnUpdate, enabled, name, effect, out>>

setEffect(eff) ==
  /\ effect' = eff
  /\ UpdateBody("setEffect", trigger, eff)
  /\ UNCHANGED <<things, hasOnUpdate, enabled, name, trigger, out>>

delete ==
  LET reqs == DeleteRequests(id, issued + 1) IN
  /\ reqs # {} => issued < MaxRequests
  /\ inflight' = inflight \cup reqs
  /\ issued' = issued + Cardinality(reqs)
  /\ lastCall' = [op |-> "delete",
                  ret |-> IF reqs = {} THEN "undefined" ELSE "promise",
                  req |-> IF reqs = {} THEN 0 ELSE issued + 1]
  /\ UNCHANGED <<things, hasOnUpdate, ruleVars, serverIds, arrivals, out>>

-----------------------------------------------------------------------------
(* Settlement of the requests in flight *)

\* the identifier the server gives the k-th rule it creates
ServerId(k) == 100 + k

\* a handler that keeps an id the rule already has
CapturedId_FirstWins(rid, rule) ==
  IF ~IsUndefined(rid) THEN rid
  ELSE IF "id" \in DOMAIN rule THEN JS(rule.id) ELSE Undefined

\* this.id = rule.id, for the parsed response body rule
CapturedId(rid, rule) ==
  IF "id" \in DOMAIN rule THEN JS(rule.id) ELSE Undefined

Settled(r, how, ret) ==
  /\ inflight' = inflight \ {r}
  /\ lastCall' = [op |-> "settle", req |-> r.n, method |-> r.method,
                  how |-> how, ret |-> ret]
  /\ UNCHANGED <<things, hasOnUpdate, enabled, name, trigger, effect,
                 issued, out>>

\* the server creates the rule and answers {id: ...}; both .then run
PostCreated(r) ==
  /\ r.method = "POST"
  /\ LET rule == [id |-> ServerId(serverIds + 1)] IN
     /\ id' = CapturedId(id, rule)
     /\ serverIds' = serverIds + 1
     /\ arrivals' = Append(arrivals, [n |-> r.n, how |-> "created",
                                      carried |-> JS(rule.id)])
  /\ Settled(r, "created", "fulfilled")

\* the network fails: fetch rejects and no .then runs
PostNetworkFailure(r) ==
  /\ r.method = "POST"
  /\ arrivals' = Append(arrivals, [n |-> r.n, how |-> "network failure",
                                   carried |-> Undefined])
  /\ UNCHANGED <<id, serverIds>>
  /\ Settled(r, "network failure", "rejected")

\* the server answers an error status; fetch resolves all the same.  The
\* body is not JSON: res.json() rejects and the second .then does not run
PostErrorUnparsable(r) ==
  /\ r.method = "POST"
  /\ arrivals' = Append(arrivals, [n |-> r.n, how |-> "server failure",
                                   carried |-> Undefined])
  /\ UNCHANGED <<id, serverIds>>
  /\ Settled(r, "server failure", "rejected")

\* the server answers an error status with a JSON body that describes the
\* error and has no id: both .then run
PostErrorJSON(r) ==
  /\ r.method = "POST"
  /\ LET rule == [error |-> TRUE] IN
     id' = CapturedId(id, rule)
  /\ arrivals' = Append(arrivals, [n |-> r.n, how |-> "server failure",
                                   carried |-> Undefined])
  /\ UNCHANGED serverIds
  /\ Settled(r, "server failure", "fulfilled")

\* a PUT or DELETE settles: update() and delete() attach no handler
OtherSettled(r, how) ==
  /\ r.method \in {"PUT", "DELETE"}
  /\ UNCHANGED <<id, serverIds, arrivals>>
  /\ Settled(r, how, IF how = "network failure" THEN "rejected" ELSE "fulfilled")

Next ==
  \/ update
  \/ \E trig \in SaveTriggers : setTrigger(trig)
  \/ \E eff \in SaveEffects : setEffect(eff)
  \/ delete
  \/ \E r \in inflight : PostCreated(r)
  \/ \E r \in inflight : PostNetworkFailure(r)
  \/ \E r \in inflight : PostErrorUnparsable(r)
  \/ \E r \in inflight : PostErrorJSON(r)
  \/ \E r \in inflight, how \in {"ok", "server failure", "network failure"} :
       OtherSettled(r, how)

Spec == Init /\ [][Next]_vars

-----------------------------------------------------------------------------
(* Rendering calls *)

toHumanDescription ==
  /\ out' = [op |-> "toHumanDescription",
             result |-> toHumanRepresentation(things, trigger, effect, FALSE)]
  /\ UNCHANGED <<things, hasOnUpdate, ruleVars, netVars, lastCall>>

toHumanInterface ==
  /\ out' = [op |-> "toHumanInterface",
             result |-> toHumanRepresentation(things, trigger, effect, TRUE)]
  /\ UNCHANGED <<things, hasOnUpdate, ruleVars, netVars, lastCall>>

isValid ==
  /\ out' = [op |-> "valid", result |-> valid(things, trigger, effect)]
  /\ UNCHANGED <<things, hasOnUpdate, ruleVars, netVars, lastCall>>

\* the rules the rendering is applied to: a tree of the pool on one side
RenderDescriptions ==
  [id : {JS(7)}, enabled : {TRUE}, name : {JS("Night light")},
   trigger : TriggerPool,
   effect : {Undefined, TurnOn, MultiEffect(<<TurnOn>>)} \cup SaveEffects]
  \cup
  [id : {JS(7)}, enabled : {TRUE}, name : {JS("Night light")},
   trigger : {Undefined} \cup SaveTriggers, effect : EffectPool]

RenderInit ==
  /\ things \in Gateways
  /\ hasOnUpdate = FALSE
  /\ \E desc \in RenderDescriptions : Constructed(desc)

RenderNext ==
  \/ toHumanDescription
  \/ toHumanInterface
  \/ isValid

RenderSpec == RenderInit /\ [][RenderNext]_vars

-----------------------------------------------------------------------------
(* Properties of the persistence operations, checked under Spec *)

SaveOps == {"update", "setTrigger", "setEffect"}
TreeAbsent == IsUndefined(trigger) \/ IsUndefined(effect)

\* the request of number n among the requests in flight
Request(n) == CHOOSE r \in inflight : r.n = n

\* the identifier the latest successful create returned
Created == {i \in 1..Len(arrivals) : arrivals[i].how = "created"}
LastCreated ==
  arrivals[CHOOSE i \in Created : \A j \in Created : j <= i].carried

\* C1: whenever a save (update, or the update that setTrigger and setEffect
\* end with) runs on a rule whose trigger or effect is absent, toDescription
\* yields no description, the call returns a rejected promise, no request is
\* issued, and id, enabled, name and the trees (but for the tree the setter
\* was given) are what they were.
C1_AbsentTreeRejected ==
  [][ (lastCall'.op \in SaveOps /\ TreeAbsent')
        => /\ IsUndefined(toDescription(enabled', name', trigger', effect'))
           /\ lastCall'.ret = "rejected"
           /\ lastCall'.req = 0
           /\ inflight' = inflight
           /\ issued' = issued
           /\ id' = id /\ enabled' = enabled /\ name' = name
           /\ lastCall'.op # "setTrigger" => trigger' = trigger
           /\ lastCall'.op # "setEffect" => effect' = effect ]_vars

C1_Witness ==
  /\ lastCall.op = "setTrigger"
  /\ ~IsUndefined(trigger)
  /\ IsUndefined(effect)
  /\ lastCall.ret = "rejected"
  /\ issued > 0

\* C2: a save of a rule with both trees issues a create (POST /rules/) when
\* the rule has no id and an update (PUT /rules/<id>) when it has one; a
\* successful create makes the returned identifier the rule's id; and once a
\* create has succeeded every later save is an update addressed by the
\* identifier the latest successful create returned, never another create.
C2_SavesAfterCreateAreUpdates ==
  /\ (lastCall.op \in SaveOps /\ lastCall.req # 0)
       => LET r == Request(lastCall.req) IN
          /\ IsUndefined(id) => r.method = "POST" /\ r.url = "/rules/"
          /\ ~IsUndefined(id)
               => r.method = "PUT" /\ r.url = "/rules/" \o ToString(id.value)
          /\ Created # {}
               => /\ r.method = "PUT"
                  /\ r.url = "/rules/" \o ToString(LastCreated.value)
  /\ (lastCall.op = "settle" /\ lastCall.how = "created")
       => id = LastCreated

\* C3: the settlement of a create or update request that failed (network
\* failure or server failure) leaves id, enabled, name, trigger and effect
\* as they were.
C3_FailureLeavesRuleUnchanged ==
  [][ (lastCall'.op = "settle"
       /\ lastCall'.method \in {"POST", "PUT"}
       /\ lastCall'.how \in {"network failure", "server failure"})
        => UNCHANGED ruleVars ]_vars

C9_DeleteOnlyWithId ==
  [][ lastCall'.op = "delete"
        => /\ UNCHANGED ruleVars
           /\ IF IsUndefined(id)
                THEN /\ inflight' = inflight
                     /\ issued' = issued
                     /\ lastCall'.ret = "undefined"
                ELSE /\ inflight \subseteq inflight'
                     /\ inflight' \ inflight =
                          {[n |-> issued + 1, method |-> "DELETE",
                            url |-> "/rules/" \o ToString(id.value)]}
                     /\ issued' = issued + 1
                     /\ lastCall'.ret = "promise" ]_vars

C9_Witness ==
  /\ lastCall.op = "delete"
  /\ lastCall.ret = "undefined"
  /\ IsUndefined(id)
  /\ \E r \in inflight : r.method = "POST"

\* C10: a save of a rule that has no id issues a create of its own even
\* while other creates are in flight, and once the last of the creates has
\* been answered with an identifier and none is in flight, the rule's id is
\* the identifier of that last answer, whatever the order of the answers.
C10_LastResponseWins ==
  /\ (lastCall.op \in SaveOps /\ lastCall.req # 0 /\ IsUndefined(id))
       => /\ Request(lastCall.req).method = "POST"
          /\ lastCall.req = issued
  /\ (/\ arrivals # <<>>
      /\ arrivals[Len(arrivals)].how = "created"
      /\ ~\E r \in inflight : r.method = "POST")
       => id = arrivals[Len(arrivals)].carried

C10_Witness ==
  /\ Len(arrivals) = 2
  /\ arrivals[1].n > arrivals[2].n
  /\ arrivals[1].how = "created" /\ arrivals[2].how = "created"
  /\ ~\E r \in inflight : r.method = "POST"
  /\ id = arrivals[2].carried
  /\ id # arrivals[1].carried

-----------------------------------------------------------------------------
(* Properties of the rendering, checked under RenderSpec *)

StartsWith(str, prefix) ==
  Len(str) >= Len(prefix) /\ SubSeq(str, 1, Len(prefix)) = prefix
EndsWith(str, suffix) ==
  /\ Len(str) >= Len(suffix)
  /\ SubSeq(str, Len(str) - Len(suffix) + 1, Len(str)) = suffix

\* the plain-text call returned a sentence
Returned == out # Undefined /\ out.op = "toHumanDescription" /\ ~out.result.threw

\* the sentence has this text on its trigger side, on its effect side
TriggerShownAs(text) ==
  \/ StartsWith(out.result.value, "If " \o text \o ", ")
  \/ StartsWith(out.result.value, "While " \o text \o ", ")
EffectShownAs(text) == EndsWith(out.result.value, ", " \o text)

\* the trees whose rendering succeeds
Renders(trig) ==
  ~Falsy(singleTriggerToHumanRepresentation(things, trig, FALSE))
RendersEffect(eff) == ~Falsy(singleEffectToHumanRepresentation(things, eff))

\* C5: toHumanRepresentation returns a sentence "<predicate> <trigger text>,
\* <effect text>" for every rule and never throws, the side that is absent
\* or fails to render being shown as "???".
C5_SentenceAlwaysProduced ==
  (out # Undefined /\ out.op \in {"toHumanDescription", "toHumanInterface"})
    => /\ ~out.result.threw
       /\ out.op = "toHumanDescription"
            => /\ \/ StartsWith(out.result.value, "If ")
                  \/ StartsWith(out.result.value, "While ")
               /\ ~Renders(trigger) => TriggerShownAs("???")
               /\ ~RendersEffect(effect) => EffectShownAs("???")

\* the children of a composite effect that carry one of the two tags
Tagged(effects) ==
  SelectSeq(effects, LAMBDA e : e.type \in {"SetEffect", "PulseEffect"})

\* C6: for a rule whose effect is a MultiEffect the plain-text sentence
\* starts with "While" when the list of children is empty or the first child
\* tagged SetEffect or PulseEffect is a PulseEffect, and with "If" when that
\* first child is a SetEffect or when there are children and none is tagged.
C6_PredicateByFirstTaggedChild ==
  (/\ out # Undefined
   /\ out.op = "toHumanDescription"
   /\ ~IsUndefined(effect)
   /\ effect.type = "MultiEffect")
    => /\ ~out.result.threw
       /\ LET tagged == Tagged(effect.effects)
              word == IF effect.effects = <<>> THEN "While"
                      ELSE IF tagged = <<>> THEN "If"
                      ELSE IF Head(tagged).type = "PulseEffect" THEN "While"
                      ELSE "If"
          IN StartsWith(out.result.value, word \o " ")

C6_Witness ==
  /\ Returned
  /\ effect = MultiEffect(<<Toggle, FlashOff, TurnOn>>)
  /\ StartsWith(out.result.value, "While ")

TriggerLeafTypes ==
  {"TimeTrigger", "EventTrigger", "BooleanTrigger", "LevelTrigger",
   "EqualityTrigger"}
EffectLeafTypes == {"ActionEffect", "SetEffect", "PulseEffect"}

\* some thing of the gateway answers the reference of this leaf
Resolves(node) ==
  IF "thing" \in DOMAIN node
    THEN \E i \in 1..Len(things) : things[i].href = node.thing.href
  ELSE IF "property" \in DOMAIN node
    THEN \E i \in 1..Len(things) :
           /\ node.property.name \in DOMAIN things[i].properties
           /\ things[i].properties[node.property.name].href = node.property.href
  ELSE TRUE

RECURSIVE WellFormedTrigger(_, _)
\* built of the variants of the data model, every reference resolving, and
\* every composite having at least minKids children
WellFormedTrigger(trig, minKids) ==
  IF trig.type = "MultiTrigger"
    THEN /\ trig.op \in {"AND", "OR"}
         /\ Len(trig.triggers) >= minKids
         /\ \A i \in 1..Len(trig.triggers) :
              WellFormedTrigger(trig.triggers[i], minKids)
    ELSE trig.type \in TriggerLeafTypes /\ Resolves(trig)

RECURSIVE WellFormedEffect(_, _)
WellFormedEffect(eff, minKids) ==
  IF eff.type = "MultiEffect"
    THEN /\ Len(eff.effects) >= minKids
         /\ \A i \in 1..Len(eff.effects) :
              WellFormedEffect(eff.effects[i], minKids)
    ELSE eff.type \in EffectLeafTypes /\ Resolves(eff)

WellFormedRule(minKids) ==
  /\ ~IsUndefined(trigger)
  /\ ~IsUndefined(effect)
  /\ WellFormedTrigger(trigger, minKids)
  /\ WellFormedEffect(effect, minKids)

\* neither side of a returned sentence is the placeholder, and valid() is
\* true
NoPlaceholderAndValid ==
  /\ Returned => ~TriggerShownAs("???") /\ ~EffectShownAs("???")
  /\ (out # Undefined /\ out.op = "valid") => out.result = TRUE

\* C7 as stated: for a rule whose trees are present, built of the variants
\* of the data model with composites of any number of children, and whose
\* references all resolve, the sentence has "???" on neither side and
\* valid() is true.
C7_ResolvedTreesRender == WellFormedRule(0) => NoPlaceholderAndValid

\* C7 as amended: the same for the rules every composite of which has at
\* least one child.
C7_ResolvedNonEmptyTreesRender == WellFormedRule(1) => NoPlaceholderAndValid

C7_Witness ==
  /\ Returned
  /\ WellFormedRule(1)
  /\ trigger.type = "MultiTrigger"
  /\ Len(trigger.triggers) = 3
  /\ \E i \in 1..3 : trigger.triggers[i].type = "MultiTrigger"
  /\ ~TriggerShownAs("???")
  /\ ~EffectShownAs("???")

RECURSIVE CommaList(_, _)
\* t1, t2, ..., tk each followed by a comma and a space
CommaList(texts, k) ==
  IF k = 0 THEN "" ELSE CommaList(texts, k - 1) \o texts[k] \o ", "

\* the join of C8
Joined(texts, word) ==
  LET n == Len(texts) IN
  IF n = 1 THEN texts[1]
  ELSE IF n = 2 THEN texts[1] \o " " \o word \o " " \o texts[2]
  ELSE CommaList(texts, n - 1) \o word \o " " \o texts[n]

\* C8: in plain text, a MultiTrigger whose n >= 1 children all render is
\* shown as the child's text (n = 1), as "t1 <op> t2" (n = 2), or as
\* "t1, ..., <op> tn" with a comma after every child but the last (n >= 3),
\* <op> being "and" for AND and "or" for OR; a MultiEffect is shown by the
\* same rule with "and".
C8_JoinOfChildren ==
  Returned
    => /\ (/\ ~IsUndefined(trigger)
           /\ trigger.type = "MultiTrigger"
           /\ Len(trigger.triggers) >= 1
           /\ \A i \in 1..Len(trigger.triggers) : Renders(trigger.triggers[i]))
            => TriggerShownAs(
                 Joined([i \in 1..Len(trigger.triggers) |->
                           singleTriggerToHumanRepresentation(
                             things, trigger.triggers[i], FALSE).str],
                        IF trigger.op = "AND" THEN "and" ELSE "or"))
       /\ (/\ effect.type = "MultiEffect"
           /\ Len(effect.effects) >= 1
           /\ \A i \in 1..Len(effect.effects) : RendersEffect(effect.effects[i]))
            => EffectShownAs(
                 Joined([i \in 1..Len(effect.effects) |->
                           singleEffectToHumanRepresentation(
                             things, effect.effects[i]).str],
                        "and"))

C8_Witness ==
  /\ Returned
  /\ trigger = MultiTrigger("OR", <<LampOn, ButtonPressed, LampOn>>)
  /\ out.result.value =
       "If Lamp is on, Button event \"pressed\" occurs, or Lamp is on, turn Lamp on"

====
